---- MODULE Spec2Model ----
(***************************************************************************)
(* A model of clickward (src/lib.rs): the ClickwardMetadata registry, its  *)
(* JSON record on disk, and the Deployment operations that sequence saves, *)
(* config generation and process start/stop requests.                      *)
(*                                                                         *)
(* Every Deployment method is one action.  Its body is written as the      *)
(* ordered list of fallible steps the Rust code performs (the "plan"); the *)
(* `?` operator is modelled by Run, which executes the plan up to the      *)
(* first step that fails and applies the effects of the completed steps.   *)
(***************************************************************************)
EXTENDS Integers, Sequences, FiniteSets, TLC

\* Largest id the model lets a watermark reach (the u64 counters are capped);
\* also the largest num_keepers / num_replicas passed to generate_config.
MaxId == 2
\* Number of I/O or spawn failures the environment injects in one run.
MaxFaults == 1
\* Number of steps (method calls and pidfile writes) in one run.
MaxCalls == 3
\* Number of lines in the text a keeper-client query prints.
MaxLines == 2
\* Largest num_keepers passed to the standalone binary's generate_config.
MaxStandaloneKeepers == 4

VARIABLES
    meta,        \* Deployment.meta: Option<ClickwardMetadata> held in memory
    disk,        \* clickward-metadata.json: the JSON text, structurally
    rootExists,  \* the deployment directory exists
    keeperCfg,   \* keeper-<id>/keeper-config.xml, per id
    serverCfg,   \* clickhouse-<id>/clickhouse-config.xml, per id
    keeperPid,   \* ids whose keeper-<id>/keeper.pid exists
    serverPid,   \* ids whose clickhouse-<id>/clickhouse.pid exists
    spawnedK,    \* keepers spawned that have not written their pidfile yet
    spawnedS,    \* servers spawned that have not written their pidfile yet
    op,          \* name of the last call
    arg,         \* its arguments / the id it allocated
    ret,         \* its result: "ok", "err" or "panic"
    failed,      \* the step that made it fail, "none" otherwise
    log,         \* the steps the last call completed, in order
    issuedK,     \* keeper ids that a saved record of this directory has held
    issuedS,     \* server ids that a saved record of this directory has held
    faults,      \* I/O and spawn failures injected so far
    calls,       \* steps taken so far
    output,      \* what `clickhouse keeper-client --query` prints, as characters
    config,      \* the last result of KeeperClient::config
    peer         \* the record held by a second Deployment on the same directory

vars == <<meta, disk, rootExists, keeperCfg, serverCfg, keeperPid, serverPid,
          spawnedK, spawnedS, op, arg, ret, failed, log, issuedK, issuedS, faults, calls,
          output, config, peer>>

Ids == 1..MaxId

Min(S) == CHOOSE x \in S : \A y \in S : x <= y

RECURSIVE SetToSeq(_)
\* Ascending iteration order of a BTreeSet.
SetToSeq(S) == IF S = {} THEN <<>>
               ELSE LET x == Min(S) IN <<x>> \o SetToSeq(S \ {x})

Range(s) == {s[k] : k \in 1..Len(s)}

RECURSIVE Concat(_)
Concat(ss) == IF ss = <<>> THEN <<>> ELSE Head(ss) \o Concat(Tail(ss))

(***************************************************************************)
(* ClickwardMetadata                                                       *)
(***************************************************************************)
\* Option::None for Deployment.meta
NoMeta == [present |-> FALSE, keeper_ids |-> {}, max_keeper_id |-> 0,
           server_ids |-> {}, max_server_id |-> 0]

\* BTreeSet::last(): the greatest element (the caller unwraps it).
Last(S) == CHOOSE x \in S : \A y \in S : y <= x

ClickwardMetadata_new(keeper_ids, replica_ids) ==
    [present |-> TRUE,
     keeper_ids |-> keeper_ids, max_keeper_id |-> Last(keeper_ids),
     server_ids |-> replica_ids, max_server_id |-> Last(replica_ids)]

\* A registry that allocates one above the greatest live id.
Mut_add_keeper_live(m) ==
    LET n == IF m.keeper_ids = {} THEN 1 ELSE Last(m.keeper_ids) + 1
    IN [m EXCEPT !.max_keeper_id = n, !.keeper_ids = @ \cup {n}]

\* A registry that inserts the new id without advancing the watermark.
Mut_add_keeper_stale(m) ==
    [m EXCEPT !.keeper_ids = @ \cup {m.max_keeper_id + 1}]

\* ClickwardMetadata::add_keeper; the id it returns is the new max_keeper_id.
Meta_add_keeper(m) ==
    [m EXCEPT !.max_keeper_id = @ + 1,
              !.keeper_ids = @ \cup {m.max_keeper_id + 1}]

\* ClickwardMetadata::add_server; the id it returns is the new max_server_id.
Meta_add_server(m) ==
    [m EXCEPT !.max_server_id = @ + 1,
              !.server_ids = @ \cup {m.max_server_id + 1}]

\* A remove that never reports a missing id.
Mut_keeper_was_removed(m, id) == TRUE

\* was_removed in ClickwardMetadata::remove_keeper
Keeper_was_removed(m, id) == id \in m.keeper_ids

\* A remove that lowers the watermark to the greatest id left.
Mut_remove_keeper_lowers(m, id) ==
    [m EXCEPT !.keeper_ids = @ \ {id},
              !.max_keeper_id = IF m.keeper_ids \ {id} = {} THEN 0
                                ELSE Last(m.keeper_ids \ {id})]

Meta_remove_keeper(m, id) == [m EXCEPT !.keeper_ids = @ \ {id}]

\* was_removed in ClickwardMetadata::remove_server
Server_was_removed(m, id) == id \in m.server_ids

Meta_remove_server(m, id) == [m EXCEPT !.server_ids = @ \ {id}]

\* A JSON number that deserializes as a u64 (the upper limit is out of the
\* model's reach).
IsU64(x) == x >= 0

\* serde_json::from_str::<ClickwardMetadata> accepts the text.
Parses(d) ==
    /\ IsU64(d.max_keeper_id) /\ IsU64(d.max_server_id)
    /\ \A k \in 1..Len(d.keeper_ids) : IsU64(d.keeper_ids[k])
    /\ \A k \in 1..Len(d.server_ids) : IsU64(d.server_ids[k])

\* A metadata file that is not a ClickwardMetadata: a field that must be a
\* u64 holds -1.
Garbage == [exists |-> TRUE, keeper_ids |-> <<>>, max_keeper_id |-> -1,
            server_ids |-> <<>>, max_server_id |-> 0]

\* No metadata file.
NoFile == [exists |-> FALSE, keeper_ids |-> <<>>, max_keeper_id |-> 0,
           server_ids |-> <<>>, max_server_id |-> 0]

\* serde_json::to_string: a BTreeSet is written as an ascending array.
ToJson(m) == [exists |-> TRUE,
              keeper_ids |-> SetToSeq(m.keeper_ids),
              max_keeper_id |-> m.max_keeper_id,
              server_ids |-> SetToSeq(m.server_ids),
              max_server_id |-> m.max_server_id]

\* A load that takes the watermarks from the greatest id of each array.
Mut_Load_recompute_max(d) ==
    IF d.exists /\ Parses(d)
    THEN [present |-> TRUE,
          keeper_ids |-> Range(d.keeper_ids),
          max_keeper_id |-> IF d.keeper_ids = <<>> THEN 0
                            ELSE Last(Range(d.keeper_ids)),
          server_ids |-> Range(d.server_ids),
          max_server_id |-> IF d.server_ids = <<>> THEN 0
                            ELSE Last(Range(d.server_ids))]
    ELSE NoMeta

\* ClickwardMetadata::load(..).ok(): a missing file and a file that does not
\* deserialize give None; an array is collected into a BTreeSet.
Load(d) == IF d.exists /\ Parses(d)
           THEN [present |-> TRUE,
                 keeper_ids |-> Range(d.keeper_ids),
                 max_keeper_id |-> d.max_keeper_id,
                 server_ids |-> Range(d.server_ids),
                 max_server_id |-> d.max_server_id]
           ELSE NoMeta

(***************************************************************************)
(* KeeperClient (src/keeper.rs)                                            *)
(***************************************************************************)
\* Text is a sequence of characters.  The literal "server." is one
\* character of the model, the line feed is "LF".
Digits == {"0", "1", "2", "9"}

DigitVal(c) == IF c = "0" THEN 0 ELSE IF c = "1" THEN 1 ELSE IF c = "2" THEN 2 ELSE 9

\* Index of the first c in s, Len(s) + 1 when there is none.
Find(s, c) == Min({k \in 1..Len(s) : s[k] = c} \cup {Len(s) + 1})

RECURSIVE Split(_, _)
\* str::split(c): the pieces between the occurrences of c, at least one.
Split(s, c) ==
    LET k == Find(s, c)
    IN IF k > Len(s) THEN <<s>>
       ELSE <<SubSeq(s, 1, k - 1)>> \o Split(SubSeq(s, k + 1, Len(s)), c)

\* str::lines(): split at line feeds; a final line feed adds no empty line.
Lines(s) ==
    LET p == Split(s, "LF")
    IN IF p[Len(p)] = <<>> THEN SubSeq(p, 1, Len(p) - 1) ELSE p

None == [some |-> FALSE, v |-> <<>>]

Some(v) == [some |-> TRUE, v |-> v]

\* line.strip_prefix("server.")
strip_prefix(line) ==
    IF Len(line) >= 1 /\ line[1] = "server." THEN Some(Tail(line)) ELSE None

\* Iterator::nth on the pieces of a split: None past the end.
Nth(pieces, k) == IF k <= Len(pieces) THEN Some(pieces[k]) ELSE None

RECURSIVE Decimal(_)
Decimal(s) ==
    IF s = <<>> THEN 0
    ELSE 10 * Decimal(SubSeq(s, 1, Len(s) - 1)) + DigitVal(s[Len(s)])

\* id.parse::<u64>(): a non-empty run of decimal digits.
parse_u64(s) ==
    IF s # <<>> /\ \A k \in 1..Len(s) : s[k] \in Digits
    THEN [some |-> TRUE, v |-> Decimal(s)]
    ELSE [some |-> FALSE, v |-> 0]

\* An address cut at the first ':' instead of the first ';'.
Mut_Addr_host_only(rest) == Split(rest, ":")[1]

\* rest.split(';').next(): the text before the first ';', all of it when
\* there is none.
Addr(rest) == Split(rest, ";")[1]

\* One iteration of the loop of KeeperClient::config: the entry the line
\* gives, or the `?` that leaves the function.
ParseLine(line) ==
    LET s == strip_prefix(line)
        iter == Split(s.v, "=")
        id == Nth(iter, 1)
        rest == Nth(iter, 2)
        n == parse_u64(id.v)
    IN IF ~s.some \/ ~id.some \/ ~rest.some \/ ~n.some
       THEN [ok |-> FALSE, id |-> 0, addr |-> <<>>]
       ELSE [ok |-> TRUE, id |-> n.v, addr |-> Addr(rest.v)]

EmptyMap == [k \in {} |-> <<>>]

\* BTreeMap::insert: a later entry for the same key replaces the earlier.
Insert(map, k, v) == [j \in DOMAIN map \cup {k} |-> IF j = k THEN v ELSE map[j]]

RECURSIVE InsertAll(_, _)
InsertAll(map, es) ==
    IF es = <<>> THEN map
    ELSE InsertAll(Insert(map, es[1].id, es[1].addr), Tail(es))

OkResult(map) == [ok |-> TRUE, err |-> "none", map |-> map]

ErrResult(e) == [ok |-> FALSE, err |-> e, map |-> EmptyMap]

\* No query has been made.
NotQueried == [ok |-> FALSE, err |-> "not_queried", map |-> EmptyMap]

\* The body of KeeperClient::config on the text the query returned.
KeeperClient_config(out) ==
    LET ls == Lines(out)
        es == [k \in 1..Len(ls) |-> ParseLine(ls[k])]
    IN IF \E k \in 1..Len(es) : ~es[k].ok
       THEN ErrResult("UnexpectedResponse")
       ELSE OkResult(InsertAll(EmptyMap, es))

(***************************************************************************)
(* Placement: ports and directories                                        *)
(***************************************************************************)
\* DEFAULT_BASE_PORTS
BasePorts == [keeper |-> 20000, raft |-> 21000, clickhouse_tcp |-> 22000,
              clickhouse_http |-> 23000, clickhouse_interserver_http |-> 24000]

\* `id.0 as u16`
U16(x) == x % 65536

\* base + id.0 as u16 leaves the range of u16.
Overflows(base, id) == base + U16(id) > 65535

\* base + id.0 as u16, as a u16: the sum wraps where overflow checks are off
\* (with them on, the addition panics; see Overflows).
Port(base, id) == (base + U16(id)) % 65536

\* Deployment::http_port
http_port(id) == Port(BasePorts.clickhouse_http, id)

\* Deployment::keeper_port
keeper_port(id) == Port(BasePorts.keeper, id)

\* The directory keeper-<id> or clickhouse-<id> of the deployment directory.
Dir(kind, id) == [kind |-> kind, id |-> id]

\* Raft ports handed out by the position of the keeper in the live set.
Mut_RaftServers_by_position(keeper_ids) ==
    [j \in keeper_ids |->
        Port(BasePorts.raft, Cardinality({i \in keeper_ids : i <= j}))]

\* raft_servers of generate_keeper_config: the raft port of each keeper
RaftServers(keeper_ids) ==
    [j \in keeper_ids |-> Port(BasePorts.raft, j)]

\* keepers.nodes of generate_clickhouse_config: the port of each keeper
KeeperNodes(keeper_ids) ==
    [j \in keeper_ids |-> Port(BasePorts.keeper, j)]

\* remote_servers.replicas of generate_clickhouse_config: the tcp port of
\* each replica
RemoteServers(replica_ids) ==
    [j \in replica_ids |-> Port(BasePorts.clickhouse_tcp, j)]

\* The KeeperConfig written to keeper-<this_keeper>/keeper-config.xml.
KeeperConfigFile(this_keeper, keeper_ids) ==
    [exists |-> TRUE, raft |-> keeper_ids,
     dir |-> Dir("keeper", this_keeper),
     tcp_port |-> keeper_port(this_keeper),
     raft_config |-> RaftServers(keeper_ids)]

\* The ReplicaConfig written to clickhouse-<id>/clickhouse-config.xml.
ReplicaConfigFile(id, keeper_ids, replica_ids) ==
    [exists |-> TRUE, keepers |-> keeper_ids, replicas |-> replica_ids,
     dir |-> Dir("clickhouse", id),
     http_port |-> http_port(id),
     tcp_port |-> Port(BasePorts.clickhouse_tcp, id),
     interserver_http_port |-> Port(BasePorts.clickhouse_interserver_http, id),
     remote_servers |-> RemoteServers(replica_ids),
     keeper_nodes |-> KeeperNodes(keeper_ids)]

\* No keeper-config.xml.
NoKeeperCfg == [exists |-> FALSE, raft |-> {}, dir |-> Dir("none", 0),
                tcp_port |-> 0, raft_config |-> <<>>]

\* No clickhouse-config.xml.
NoServerCfg == [exists |-> FALSE, keepers |-> {}, replicas |-> {},
                dir |-> Dir("none", 0), http_port |-> 0, tcp_port |-> 0,
                interserver_http_port |-> 0, remote_servers |-> <<>>,
                keeper_nodes |-> <<>>]

(***************************************************************************)
(* Steps                                                                   *)
(***************************************************************************)
Step(o, i, ks, ss, m) == [op |-> o, id |-> i, ks |-> ks, ss |-> ss, meta |-> m]

\* ClickwardMetadata::save
save(m) == <<Step("save", 0, m.keeper_ids, m.server_ids, m)>>

\* one keeper-config.xml listing keeper_ids as raft servers
generate_keeper_config(this_keeper, keeper_ids) ==
    <<Step("gen_keeper", this_keeper, keeper_ids, {}, NoMeta)>>

\* one clickhouse-config.xml per replica, in ascending id order
generate_clickhouse_config(keeper_ids, replica_ids) ==
    LET s == SetToSeq(replica_ids)
    IN [k \in 1..Len(s) |-> Step("gen_server", s[k], keeper_ids, replica_ids, NoMeta)]

\* for id in ids { generate_keeper_config(id, keeper_ids)? }
ForKeepers(ids, keeper_ids) ==
    LET s == SetToSeq(ids)
    IN Concat([k \in 1..Len(s) |-> generate_keeper_config(s[k], keeper_ids)])

start_keeper(id) == <<Step("spawn_keeper", id, {}, {}, NoMeta)>>

start_server(id) == <<Step("spawn_server", id, {}, {}, NoMeta)>>

\* A stop that removes the pidfile as soon as it has read it.
Mut_stop_keeper_rm_first(id) ==
    <<Step("read_pid_keeper", id, {}, {}, NoMeta),
      Step("rm_pid_keeper", id, {}, {}, NoMeta),
      Step("kill_keeper", id, {}, {}, NoMeta)>>

stop_keeper(id) ==
    <<Step("read_pid_keeper", id, {}, {}, NoMeta),
      Step("kill_keeper", id, {}, {}, NoMeta),
      Step("rm_pid_keeper", id, {}, {}, NoMeta)>>

\* A stop that removes the pidfile once the supervisor was signalled and
\* leaves the worker alone.
Mut_stop_server_parent_only(id) ==
    <<Step("read_pid_server", id, {}, {}, NoMeta),
      Step("kill_server", id, {}, {}, NoMeta),
      Step("rm_pid_server", id, {}, {}, NoMeta)>>

stop_server(id) ==
    <<Step("read_pid_server", id, {}, {}, NoMeta),
      Step("pgrep", id, {}, {}, NoMeta),
      Step("kill_server", id, {}, {}, NoMeta),
      Step("kill_child", id, {}, {}, NoMeta),
      Step("rm_pid_server", id, {}, {}, NoMeta)>>

(***************************************************************************)
(* Deployment: the body of each method as its ordered list of steps        *)
(***************************************************************************)
\* add_keeper that starts the new keeper before its config is written and
\* only then rewrites the other keepers.
Mut_add_keeper_start_first(m, new_id) ==
    save(m)
    \o start_keeper(new_id)
    \o ForKeepers(m.keeper_ids, m.keeper_ids)
    \o generate_clickhouse_config(m.keeper_ids, m.server_ids)

\* add_keeper that saves the metadata once everything else is done.
Mut_add_keeper_save_last(m, new_id) ==
    generate_keeper_config(new_id, m.keeper_ids)
    \o start_keeper(new_id)
    \o ForKeepers(m.keeper_ids \ {new_id}, m.keeper_ids)
    \o generate_clickhouse_config(m.keeper_ids, m.server_ids)
    \o save(m)

\* add_keeper that leaves the other keepers' configs as they are.
Mut_add_keeper_new_only(m, new_id) ==
    save(m)
    \o generate_keeper_config(new_id, m.keeper_ids)
    \o start_keeper(new_id)
    \o generate_clickhouse_config(m.keeper_ids, m.server_ids)

\* Deployment::add_keeper after meta.add_keeper() returned new_id; m is the
\* metadata after the allocation.
add_keeper(m, new_id) ==
    save(m)
    \o generate_keeper_config(new_id, m.keeper_ids)
    \o start_keeper(new_id)
    \o ForKeepers(m.keeper_ids \ {new_id}, m.keeper_ids)
    \o generate_clickhouse_config(m.keeper_ids, m.server_ids)

\* add_server that starts the new replica before the configs are written.
Mut_add_server_start_first(m, new_id) ==
    save(m)
    \o start_server(new_id)
    \o generate_clickhouse_config(m.keeper_ids, m.server_ids)

\* add_server that writes the config of the new replica only.
Mut_add_server_new_only(m, new_id) ==
    save(m)
    \o <<Step("gen_server", new_id, m.keeper_ids, m.server_ids, NoMeta)>>
    \o start_server(new_id)

\* Deployment::add_server after meta.add_server() returned new_id.
add_server(m, new_id) ==
    save(m)
    \o generate_clickhouse_config(m.keeper_ids, m.server_ids)
    \o start_server(new_id)

\* remove_keeper that stops the node before the others are reconfigured.
Mut_remove_keeper_stop_first(m, id) ==
    save(m)
    \o stop_keeper(id)
    \o ForKeepers(m.keeper_ids, m.keeper_ids)
    \o generate_clickhouse_config(m.keeper_ids, m.server_ids)

\* remove_keeper that writes the configs before the metadata is saved.
Mut_remove_keeper_save_late(m, id) ==
    ForKeepers(m.keeper_ids, m.keeper_ids)
    \o save(m)
    \o stop_keeper(id)
    \o generate_clickhouse_config(m.keeper_ids, m.server_ids)

\* remove_keeper that rewrites the clickhouse configs before the stop.
Mut_remove_keeper_configs_first(m, id) ==
    save(m)
    \o ForKeepers(m.keeper_ids, m.keeper_ids)
    \o generate_clickhouse_config(m.keeper_ids, m.server_ids)
    \o stop_keeper(id)

\* Deployment::remove_keeper after meta.remove_keeper(id) succeeded; m is
\* the metadata without id.
remove_keeper(m, id) ==
    save(m)
    \o ForKeepers(m.keeper_ids, m.keeper_ids)
    \o stop_keeper(id)
    \o generate_clickhouse_config(m.keeper_ids, m.server_ids)

\* remove_server that stops the node before the configs are rewritten.
Mut_remove_server_stop_first(m, id) ==
    save(m)
    \o stop_server(id)
    \o generate_clickhouse_config(m.keeper_ids, m.server_ids)

\* Deployment::remove_server after meta.remove_server(id) succeeded.
remove_server(m, id) ==
    save(m)
    \o generate_clickhouse_config(m.keeper_ids, m.server_ids)
    \o stop_server(id)

\* (1..=n).collect()
UpTo(n) == 1..n

\* The metadata generate_config builds; ClickwardMetadata::new unwraps
\* last() of both sets, so it exists only when neither is empty.
NewMeta(kids, rids) ==
    IF kids = {} \/ rids = {} THEN NoMeta ELSE ClickwardMetadata_new(kids, rids)

\* generate_config that saves the metadata before writing the configs and
\* starts the first keeper.
Mut_generate_config_eager(num_keepers, num_replicas) ==
    LET kids == UpTo(num_keepers)
        rids == UpTo(num_replicas)
    IN <<Step("create_dir_all", 0, {}, {}, NoMeta)>>
       \o <<Step("new_meta", 0, kids, rids, NoMeta)>>
       \o save(NewMeta(kids, rids))
       \o generate_clickhouse_config(kids, rids)
       \o start_keeper(1)

\* Deployment::generate_config
generate_config(num_keepers, num_replicas) ==
    LET kids == UpTo(num_keepers)
        rids == UpTo(num_replicas)
    IN <<Step("create_dir_all", 0, {}, {}, NoMeta)>>
       \o generate_clickhouse_config(kids, rids)
       \o ForKeepers(kids, kids)
       \o <<Step("new_meta", 0, kids, rids, NoMeta)>>
       \o save(NewMeta(kids, rids))

IsKeeperDir(e) == e.kind = "keeper"

IsClickhouseDir(e) == e.kind = "clickhouse"

SpawnAll(o, entries) ==
    [k \in 1..Len(entries) |-> Step(o, entries[k].id, {}, {}, NoMeta)]

\* deploy that starts the nodes in directory order, whatever their kind.
Mut_deploy_unfiltered(dirs) ==
    <<Step("read_dir", 0, {}, {}, NoMeta)>>
    \o [k \in 1..Len(dirs) |->
          Step(IF IsKeeperDir(dirs[k]) THEN "spawn_keeper" ELSE "spawn_server",
               dirs[k].id, {}, {}, NoMeta)]

\* Deployment::deploy over the entries read_dir returned, in that order.
deploy(dirs) ==
    <<Step("read_dir", 0, {}, {}, NoMeta)>>
    \o SpawnAll("spawn_keeper", SelectSeq(dirs, IsKeeperDir))
    \o SpawnAll("spawn_server", SelectSeq(dirs, IsClickhouseDir))

(***************************************************************************)
(* Running a plan: `?` returns at the first failing step                   *)
(***************************************************************************)
\* A stop that goes on without the pidfile it could not read.
Mut_Forced_no_pidfile(s) ==
    \/ s.op = "read_dir" /\ ~rootExists
    \/ s.op = "new_meta" /\ (s.ks = {} \/ s.ss = {})

\* Steps that fail in the current state whatever else happens: a pidfile
\* that is not there, a directory that is not there, last() of an empty set.
Forced(s) ==
    \/ s.op = "read_pid_keeper" /\ s.id \notin keeperPid
    \/ s.op = "read_pid_server" /\ s.id \notin serverPid
    \/ s.op = "read_dir" /\ ~rootExists
    \/ s.op = "new_meta" /\ (s.ks = {} \/ s.ss = {})

\* Steps that can also fail for reasons outside the model (I/O, spawn).
Fallible(s) == s.op # "new_meta"

\* Steps whose failure is an unwrap(): the process panics.
Panics(s) == s.op \in {"create_dir_all", "new_meta", "spawn_keeper_expect"}

\* The failure points a call of `plan` may be given: one fallible step, or
\* none (Len(plan) + 1).
FailPoints(plan) ==
    {k \in 1..Len(plan) : Fallible(plan[k]) /\ faults < MaxFaults}
        \cup {Len(plan) + 1}

\* Index of the step at which the plan stops, Len(plan) + 1 when it completes.
StopAt(plan, f) ==
    Min({k \in 1..Len(plan) : Forced(plan[k])} \cup {f})

\* A run that notes the failure and carries on with the steps after it.
Mut_Done_continue(plan, f) ==
    SubSeq(plan, 1, StopAt(plan, f) - 1)
        \o SubSeq(plan, StopAt(plan, f) + 1, Len(plan))

\* The steps performed: those before the first failure.
Done(plan, f) == SubSeq(plan, 1, StopAt(plan, f) - 1)

Completes(plan, f) == StopAt(plan, f) > Len(plan)

HasStep(done, o, i) ==
    \E k \in 1..Len(done) : done[k].op = o /\ done[k].id = i

LastStep(done, o, i) ==
    done[CHOOSE k \in 1..Len(done) :
            /\ done[k].op = o /\ done[k].id = i
            /\ \A j \in (k+1)..Len(done) : ~(done[j].op = o /\ done[j].id = i)]

StepIds(done, o) == {done[k].id : k \in {j \in 1..Len(done) : done[j].op = o}}

\* The effects of the completed steps on the file system and processes, and
\* the result of the call.
Run(name, a, plan, f) ==
    LET k == StopAt(plan, f)
        done == Done(plan, f)
    IN /\ calls < MaxCalls
       /\ calls' = calls + 1
       /\ op' = name
       /\ arg' = a
       /\ log' = done
       /\ ret' = IF k > Len(plan) THEN "ok"
                 ELSE IF Panics(plan[k]) THEN "panic" ELSE "err"
       /\ failed' = IF k > Len(plan) THEN "none" ELSE plan[k].op
       /\ faults' = IF k <= Len(plan) /\ ~Forced(plan[k]) THEN faults + 1 ELSE faults
       /\ disk' = IF HasStep(done, "save", 0)
                  THEN ToJson(LastStep(done, "save", 0).meta) ELSE disk
       /\ rootExists' = (\/ rootExists
                          \/ \E j \in 1..Len(done) :
                                done[j].op \in {"create_dir_all", "gen_keeper", "gen_server"})
       /\ keeperCfg' = [i \in Ids |->
              IF HasStep(done, "gen_keeper", i)
              THEN KeeperConfigFile(i, LastStep(done, "gen_keeper", i).ks)
              ELSE keeperCfg[i]]
       /\ serverCfg' = [i \in Ids |->
              IF HasStep(done, "gen_server", i)
              THEN ReplicaConfigFile(i, LastStep(done, "gen_server", i).ks,
                                     LastStep(done, "gen_server", i).ss)
              ELSE serverCfg[i]]
       /\ keeperPid' = keeperPid \ StepIds(done, "rm_pid_keeper")
       /\ serverPid' = serverPid \ StepIds(done, "rm_pid_server")
       /\ spawnedK' = spawnedK \cup StepIds(done, "spawn_keeper")
                              \cup StepIds(done, "spawn_keeper_expect")
       /\ spawnedS' = spawnedS \cup StepIds(done, "spawn_server")
       /\ UNCHANGED <<output, config, peer>>

\* A call that unwraps what is missing instead of returning an error.
Mut_Bail_unwrap(name, a, why) ==
    /\ calls < MaxCalls
    /\ calls' = calls + 1
    /\ op' = name /\ arg' = a /\ log' = <<>> /\ ret' = "panic" /\ failed' = why
    /\ UNCHANGED <<disk, rootExists, keeperCfg, serverCfg, keeperPid,
                   serverPid, spawnedK, spawnedS, faults, output, config, peer>>

\* A call that returns before doing anything (bail!).
Bail(name, a, why) ==
    /\ calls < MaxCalls
    /\ calls' = calls + 1
    /\ op' = name /\ arg' = a /\ log' = <<>> /\ ret' = "err" /\ failed' = why
    /\ UNCHANGED <<disk, rootExists, keeperCfg, serverCfg, keeperPid,
                   serverPid, spawnedK, spawnedS, faults, output, config, peer>>

(***************************************************************************)
(* Actions                                                                 *)
(***************************************************************************)
\* Deployment::new on a path that holds nothing: the first call of the run.
Init ==
    /\ meta = NoMeta
    /\ disk = NoFile
    /\ rootExists = FALSE
    /\ keeperCfg = [i \in Ids |-> NoKeeperCfg]
    /\ serverCfg = [i \in Ids |-> NoServerCfg]
    /\ keeperPid = {} /\ serverPid = {}
    /\ spawnedK = {} /\ spawnedS = {}
    /\ op = "new" /\ arg = <<0, 0>> /\ ret = "ok" /\ failed = "none"
    /\ log = <<>>
    /\ issuedK = {} /\ issuedS = {}
    /\ faults = 0
    /\ calls = 1
    /\ output = <<>> /\ config = NotQueried /\ peer = NoMeta

\* Deployment::new: a fresh Deployment value loads the record, if any.
New ==
    /\ calls < MaxCalls
    /\ calls' = calls + 1
    /\ meta' = Load(disk)
    /\ op' = "new" /\ arg' = <<0, 0>> /\ ret' = "ok" /\ failed' = "none"
    /\ log' = <<>>
    /\ UNCHANGED <<disk, rootExists, keeperCfg, serverCfg, keeperPid,
                   serverPid, spawnedK, spawnedS, issuedK, issuedS, faults,
                   output, config, peer>>

\* The ids issued so far once a call has run: those of the metadata it
\* saved count as issued, whichever call allocated them.
Issued(old, ids, done) ==
    IF HasStep(done, "save", 0) THEN old \cup ids ELSE old

GenerateConfig ==
    \E n \in 0..MaxId, r \in 0..MaxId :
        LET plan == generate_config(n, r)
        IN \E f \in FailPoints(plan) :
            /\ Run("generate_config", <<n, r>>, plan, f)
            /\ meta' = IF Completes(plan, f)
                       THEN ClickwardMetadata_new(UpTo(n), UpTo(r)) ELSE meta
            /\ issuedK' = Issued(issuedK, UpTo(n), Done(plan, f))
            /\ issuedS' = Issued(issuedS, UpTo(r), Done(plan, f))

\* An add_keeper that reloads the record from disk before it allocates.
Mut_AddKeeper_reload ==
    \/ /\ Load(disk).present
       /\ Load(disk).max_keeper_id < MaxId
       /\ LET m == Meta_add_keeper(Load(disk))
              new_id == m.max_keeper_id
              plan == add_keeper(m, new_id)
          IN \E f \in FailPoints(plan) :
              /\ Run("add_keeper", <<new_id, 0>>, plan, f)
              /\ meta' = m
              /\ issuedK' = Issued(issuedK, m.keeper_ids, Done(plan, f))
              /\ issuedS' = Issued(issuedS, m.server_ids, Done(plan, f))
    \/ /\ ~Load(disk).present
       /\ Bail("add_keeper", <<0, 0>>, "missing_meta")
       /\ UNCHANGED <<meta, issuedK, issuedS>>

AddKeeper ==
    \/ /\ meta.present
       /\ meta.max_keeper_id < MaxId
       /\ LET m == Meta_add_keeper(meta)
              new_id == m.max_keeper_id
              plan == add_keeper(m, new_id)
          IN \E f \in FailPoints(plan) :
              /\ Run("add_keeper", <<new_id, 0>>, plan, f)
              /\ meta' = m
              /\ issuedK' = Issued(issuedK, m.keeper_ids, Done(plan, f))
              /\ issuedS' = Issued(issuedS, m.server_ids, Done(plan, f))
    \/ /\ ~meta.present
       /\ Bail("add_keeper", <<0, 0>>, "missing_meta")
       /\ UNCHANGED <<meta, issuedK, issuedS>>

AddServer ==
    \/ /\ meta.present
       /\ meta.max_server_id < MaxId
       /\ LET m == Meta_add_server(meta)
              new_id == m.max_server_id
              plan == add_server(m, new_id)
          IN \E f \in FailPoints(plan) :
              /\ Run("add_server", <<new_id, 0>>, plan, f)
              /\ meta' = m
              /\ issuedK' = Issued(issuedK, m.keeper_ids, Done(plan, f))
              /\ issuedS' = Issued(issuedS, m.server_ids, Done(plan, f))
    \/ /\ ~meta.present
       /\ Bail("add_server", <<0, 0>>, "missing_meta")
       /\ UNCHANGED <<meta, issuedK, issuedS>>

RemoveKeeper ==
    \E id \in Ids :
        \/ /\ meta.present
           /\ Keeper_was_removed(meta, id)
           /\ LET m == Meta_remove_keeper(meta, id)
                  plan == remove_keeper(m, id)
              IN \E f \in FailPoints(plan) :
                  /\ Run("remove_keeper", <<id, 0>>, plan, f)
                  /\ meta' = m
                  /\ issuedK' = Issued(issuedK, m.keeper_ids, Done(plan, f))
                  /\ issuedS' = Issued(issuedS, m.server_ids, Done(plan, f))
        \/ /\ meta.present
           /\ ~Keeper_was_removed(meta, id)
           /\ Bail("remove_keeper", <<id, 0>>, "no_such_keeper")
           /\ meta' = Meta_remove_keeper(meta, id)
           /\ UNCHANGED <<issuedK, issuedS>>
        \/ /\ ~meta.present
           /\ Bail("remove_keeper", <<id, 0>>, "missing_meta")
           /\ UNCHANGED <<meta, issuedK, issuedS>>

RemoveServer ==
    \E id \in Ids :
        \/ /\ meta.present
           /\ Server_was_removed(meta, id)
           /\ LET m == Meta_remove_server(meta, id)
                  plan == remove_server(m, id)
              IN \E f \in FailPoints(plan) :
                  /\ Run("remove_server", <<id, 0>>, plan, f)
                  /\ meta' = m
                  /\ issuedK' = Issued(issuedK, m.keeper_ids, Done(plan, f))
                  /\ issuedS' = Issued(issuedS, m.server_ids, Done(plan, f))
        \/ /\ meta.present
           /\ ~Server_was_removed(meta, id)
           /\ Bail("remove_server", <<id, 0>>, "no_such_replica")
           /\ meta' = Meta_remove_server(meta, id)
           /\ UNCHANGED <<issuedK, issuedS>>
        \/ /\ ~meta.present
           /\ Bail("remove_server", <<id, 0>>, "missing_meta")
           /\ UNCHANGED <<meta, issuedK, issuedS>>

\* The entries of the deployment directory in name order: clickhouse-<id>
\* sorts before keeper-<id>.
Listing ==
    LET ss == SetToSeq({i \in Ids : serverCfg[i].exists})
        ks == SetToSeq({i \in Ids : keeperCfg[i].exists})
    IN [k \in 1..Len(ss) |-> Dir("clickhouse", ss[k])]
       \o [k \in 1..Len(ks) |-> Dir("keeper", ks[k])]

Reverse(s) == [k \in 1..Len(s) |-> s[Len(s) + 1 - k]]

\* read_dir gives no order: the model tries name order and its reverse.
Deploy ==
    \E dirs \in {Listing, Reverse(Listing)} :
        LET plan == deploy(dirs)
        IN \E f \in FailPoints(plan) :
            /\ Run("deploy", <<0, 0>>, plan, f)
            /\ UNCHANGED <<meta, issuedK, issuedS>>

\* A spawned `clickhouse keeper --pidfile ...` writes its pidfile.
KeeperWritesPid ==
    \E id \in spawnedK :
        /\ calls < MaxCalls
        /\ calls' = calls + 1
        /\ spawnedK' = spawnedK \ {id}
        /\ keeperPid' = keeperPid \cup {id}
        /\ op' = "keeper_pidfile" /\ arg' = <<id, 0>> /\ ret' = "ok"
        /\ failed' = "none" /\ log' = <<>>
        /\ UNCHANGED <<meta, disk, rootExists, keeperCfg, serverCfg,
                       serverPid, spawnedS, issuedK, issuedS, faults,
                       output, config, peer>>

\* A spawned `clickhouse server --pidfile ...` writes its pidfile.
ServerWritesPid ==
    \E id \in spawnedS :
        /\ calls < MaxCalls
        /\ calls' = calls + 1
        /\ spawnedS' = spawnedS \ {id}
        /\ serverPid' = serverPid \cup {id}
        /\ op' = "server_pidfile" /\ arg' = <<id, 0>> /\ ret' = "ok"
        /\ failed' = "none" /\ log' = <<>>
        /\ UNCHANGED <<meta, disk, rootExists, keeperCfg, serverCfg,
                       keeperPid, spawnedK, issuedK, issuedS, faults,
                       output, config, peer>>

Next ==
    \/ New
    \/ GenerateConfig
    \/ AddKeeper
    \/ AddServer
    \/ RemoveKeeper
    \/ RemoveServer
    \/ Deploy
    \/ KeeperWritesPid
    \/ ServerWritesPid

Spec == Init /\ [][Next]_vars

(***************************************************************************)
(* Membership changes on a generated cluster                               *)
(***************************************************************************)
\* The state generate_config(n, r) leaves on a fresh directory, before
\* (running = FALSE) or after (running = TRUE) deploy has started every node
\* and every node has written its pidfile.  The clusters are those that can
\* still grow within the id cap.
InitCluster ==
    \E n \in 1..(MaxId - 1), r \in 1..(MaxId - 1), running \in BOOLEAN :
        /\ meta = ClickwardMetadata_new(UpTo(n), UpTo(r))
        /\ disk = ToJson(meta)
        /\ rootExists = TRUE
        /\ keeperCfg = [i \in Ids |-> IF i \in UpTo(n)
                            THEN KeeperConfigFile(i, UpTo(n))
                            ELSE NoKeeperCfg]
        /\ serverCfg = [i \in Ids |-> IF i \in UpTo(r)
                            THEN ReplicaConfigFile(i, UpTo(n), UpTo(r))
                            ELSE NoServerCfg]
        /\ keeperPid = (IF running THEN UpTo(n) ELSE {})
        /\ serverPid = (IF running THEN UpTo(r) ELSE {})
        /\ spawnedK = {} /\ spawnedS = {}
        /\ op = (IF running THEN "server_pidfile" ELSE "generate_config")
        /\ arg = (IF running THEN <<r, 0>> ELSE <<n, r>>)
        /\ ret = "ok" /\ failed = "none"
        /\ log = <<>>
        /\ issuedK = UpTo(n) /\ issuedS = UpTo(r)
        /\ faults = 0
        /\ calls = 0
        /\ output = <<>> /\ config = NotQueried /\ peer = NoMeta

\* A generated cluster whose metadata file was since lost or damaged: the
\* Deployment created on it holds no metadata.
InitDamaged ==
    \E n \in 1..(MaxId - 1), r \in 1..(MaxId - 1), d \in {NoFile, Garbage} :
        /\ disk = d
        /\ meta = Load(d)
        /\ rootExists = TRUE
        /\ keeperCfg = [i \in Ids |-> IF i \in UpTo(n)
                            THEN KeeperConfigFile(i, UpTo(n))
                            ELSE NoKeeperCfg]
        /\ serverCfg = [i \in Ids |-> IF i \in UpTo(r)
                            THEN ReplicaConfigFile(i, UpTo(n), UpTo(r))
                            ELSE NoServerCfg]
        /\ keeperPid = UpTo(n) /\ serverPid = UpTo(r)
        /\ spawnedK = {} /\ spawnedS = {}
        /\ op = "new" /\ arg = <<0, 0>> /\ ret = "ok" /\ failed = "none"
        /\ log = <<>>
        /\ issuedK = UpTo(n) /\ issuedS = UpTo(r)
        /\ faults = 0
        /\ calls = 1
        /\ output = <<>> /\ config = NotQueried /\ peer = NoMeta

NextMember ==
    \/ New
    \/ AddKeeper
    \/ AddServer
    \/ RemoveKeeper
    \/ RemoveServer
    \/ KeeperWritesPid
    \/ ServerWritesPid

\* The operations are called on a generated cluster, on a path that holds
\* no deployment, or on a cluster that has lost its metadata.
SpecMember == (Init \/ InitCluster \/ InitDamaged) /\ [][NextMember]_vars

(***************************************************************************)
(* The registry under membership changes, processes left aside             *)
(***************************************************************************)
NextRegistry ==
    \/ New
    \/ AddKeeper
    \/ AddServer
    \/ RemoveKeeper
    \/ RemoveServer

SpecRegistry == (Init \/ InitCluster) /\ [][NextRegistry]_vars

(***************************************************************************)
(* Two invocations on one deployment directory                             *)
(***************************************************************************)
\* Each Deployment value (each run of the binary) owns its copy of the
\* record, loaded once by Deployment::new; new, save and the membership
\* operations take no lock and never reload.  meta is the copy of the
\* invocation that takes the next step and peer the copy of the other one:
\* Yield hands the next step to the other invocation.
Yield ==
    /\ meta' = peer
    /\ peer' = meta
    /\ UNCHANGED <<disk, rootExists, keeperCfg, serverCfg, keeperPid,
                   serverPid, spawnedK, spawnedS, op, arg, ret, failed, log,
                   issuedK, issuedS, faults, calls, output, config>>

NextRace ==
    \/ New
    \/ Yield
    \/ AddKeeper
    \/ RemoveKeeper

\* From a generated cluster: the first invocation holds the record it
\* generated, the second one has yet to load it.
SpecRace == InitCluster /\ [][NextRace]_vars

(***************************************************************************)
(* Generating a cluster, on a fresh directory or over an earlier one       *)
(***************************************************************************)
NextGenerate ==
    \/ New
    \/ GenerateConfig
    \/ AddKeeper
    \/ AddServer

SpecGenerate == Init /\ [][NextGenerate]_vars

(***************************************************************************)
(* Deploying a generated cluster                                           *)
(***************************************************************************)
NextDeploy ==
    \/ Deploy
    \/ RemoveKeeper
    \/ RemoveServer
    \/ KeeperWritesPid
    \/ ServerWritesPid

SpecDeploy == (Init \/ InitCluster) /\ [][NextDeploy]_vars

(***************************************************************************)
(* Stopping nodes: Deployment::teardown and the stop methods               *)
(***************************************************************************)
\* One `let _ = self.stop_*(id)` of teardown.
StopCall(kind, id, plan) == [kind |-> kind, id |-> id, plan |-> plan]

\* The stop calls Deployment::teardown makes for the metadata it holds, in
\* call order: every keeper in ascending id order, then every server.  With
\* no metadata it makes none.
teardown(m) ==
    LET ks == SetToSeq(m.keeper_ids)
        ss == SetToSeq(m.server_ids)
    IN [k \in 1..Len(ks) |-> StopCall("stop_keeper", ks[k], stop_keeper(ks[k]))]
       \o [k \in 1..Len(ss) |-> StopCall("stop_server", ss[k], stop_server(ss[k]))]

\* Length of the longest stop plan.
StopLen == Len(stop_server(1))

\* The failure points the calls of teardown may be given, one per call
\* (Len(plan) + 1 when the call is given none), within the fault budget.
StopFailPoints(stops) ==
    LET N == 1..Len(stops)
        Hit == {F \in SUBSET N : Cardinality(F) <= MaxFaults - faults}
    IN UNION {
         {[k \in N |-> IF k \in F THEN g[k] ELSE Len(stops[k].plan) + 1] :
             g \in {h \in [F -> 1..StopLen] :
                      \A k \in F : /\ h[k] <= Len(stops[k].plan)
                                   /\ Fallible(stops[k].plan[h[k]])}} :
         F \in Hit}

\* The call of stops[k] was given a failure that a missing pidfile did not
\* pre-empt.
Injected(stops, fs, k) ==
    LET j == StopAt(stops[k].plan, fs[k])
    IN j <= Len(stops[k].plan) /\ ~Forced(stops[k].plan[j])

\* A teardown that returns at the first stop that fails.
Mut_Attempted_abort(stops, fs) ==
    {k \in 1..Len(stops) :
        \A j \in 1..(k - 1) : Completes(stops[j].plan, fs[j])}

\* The calls teardown reaches: `let _ =` discards every result, so all.
Attempted(stops, fs) == 1..Len(stops)

\* What one reached call does: it is entered, then runs to its first failure.
StopTrace(call, f) ==
    <<Step(call.kind, call.id, {}, {}, NoMeta)>> \o Done(call.plan, f)

\* Deployment::teardown
Teardown ==
    LET stops == teardown(meta)
    IN \E fs \in StopFailPoints(stops) :
        LET att == Attempted(stops, fs)
            done == Concat([k \in 1..Len(stops) |->
                              IF k \in att THEN StopTrace(stops[k], fs[k])
                              ELSE <<>>])
        IN /\ calls < MaxCalls
           /\ calls' = calls + 1
           /\ op' = "teardown" /\ arg' = <<0, 0>>
           /\ ret' = "ok" /\ failed' = "none"
           /\ log' = done
           /\ faults' = faults
                 + Cardinality({k \in att : Injected(stops, fs, k)})
           /\ keeperPid' = keeperPid \ StepIds(done, "rm_pid_keeper")
           /\ serverPid' = serverPid \ StepIds(done, "rm_pid_server")
           /\ UNCHANGED <<meta, disk, rootExists, keeperCfg, serverCfg,
                          spawnedK, spawnedS, issuedK, issuedS,
                          output, config, peer>>

\* Deployment::stop_keeper called directly.
StopKeeper ==
    \E id \in Ids :
        LET plan == stop_keeper(id)
        IN \E f \in FailPoints(plan) :
            /\ Run("stop_keeper", <<id, 0>>, plan, f)
            /\ UNCHANGED <<meta, issuedK, issuedS>>

\* Deployment::stop_server called directly.
StopServer ==
    \E id \in Ids :
        LET plan == stop_server(id)
        IN \E f \in FailPoints(plan) :
            /\ Run("stop_server", <<id, 0>>, plan, f)
            /\ UNCHANGED <<meta, issuedK, issuedS>>

NextStop ==
    \/ Teardown
    \/ StopKeeper
    \/ StopServer
    \/ Deploy
    \/ KeeperWritesPid
    \/ ServerWritesPid

\* Nodes are started and stopped on a generated cluster, or on a path that
\* holds no deployment.
SpecStop == (Init \/ InitCluster) /\ [][NextStop]_vars

(***************************************************************************)
(* Querying a keeper for its membership                                    *)
(***************************************************************************)
\* The parts a response line is put together from: with and without the
\* "server." prefix, a numeric or non-numeric id, with and without '=',
\* ':<port>' and ';<info>'.
PrefixParts == {<<"server.">>, <<>>}

IdParts == {<<"1">>, <<"0", "2">>, <<"x">>}

EqParts == {<<"=">>, <<>>}

AddrParts == {<<"h", ":", "9">>, <<"h">>}

InfoParts == {<<";", "i">>, <<>>}

\* The parts of a line that are not those of server.<id>=<host>:<port>;<info>.
Defects(p, i, e, a, r) ==
    {d \in {"prefix", "id", "eq", "port", "info"} :
        \/ d = "prefix" /\ p = <<>>
        \/ d = "id" /\ i = <<"x">>
        \/ d = "eq" /\ e = <<>>
        \/ d = "port" /\ a = <<"h">>
        \/ d = "info" /\ r = <<>>}

\* The lines a keeper may answer with: well-formed ones, and those with one
\* part wrong, or with neither port nor info.
LineTexts ==
    {p \o i \o e \o a \o r :
        <<p, i, e, a, r>> \in
            {t \in PrefixParts \X IdParts \X EqParts \X AddrParts \X InfoParts :
                LET d == Defects(t[1], t[2], t[3], t[4], t[5])
                IN Cardinality(d) <= 1 \/ d = {"port", "info"}}}

RECURSIVE Join(_)
\* The lines, each followed by a line feed.
Join(ls) == IF ls = <<>> THEN <<>> ELSE ls[1] \o <<"LF">> \o Join(Tail(ls))

\* The texts a query may print: up to MaxLines lines, the last one with or
\* without its line feed.
Outputs ==
    LET Ls == UNION {[1..n -> LineTexts] : n \in 0..MaxLines}
    IN {Join(ls) : ls \in Ls}
       \cup {SubSeq(Join(ls), 1, Len(Join(ls)) - 1) : ls \in Ls \ {<<>>}}

\* The ids given to keeper-config: any u64.  Small ids, the first id whose
\* port does not fit, and an id beyond 16 bits.
QueryIds == {1, 2, 45536, 65537}

\* What Commands::KeeperConfig leaves alone: its Deployment is a temporary
\* built on a dummy path, used only for keeper_addr.
Mut_KeeperConfigFrame_reconcile ==
    /\ keeperPid' = (IF config'.ok THEN keeperPid \cap DOMAIN config'.map
                     ELSE keeperPid)
    /\ UNCHANGED <<meta, disk, rootExists, keeperCfg, serverCfg, serverPid,
                   spawnedK, spawnedS, issuedK, issuedS, peer>>

KeeperConfigFrame ==
    UNCHANGED <<meta, disk, rootExists, keeperCfg, serverCfg, keeperPid,
                serverPid, spawnedK, spawnedS, issuedK, issuedS, peer>>

\* Commands::KeeperConfig: keeper_addr computes the port of the id (the
\* addition panics on overflow where overflow checks are on and wraps where
\* they are off); then KeeperClient::config runs the query and parses what
\* it printed, or the query itself fails (the client cannot be spawned or
\* read).  config() keeps nothing between calls, so a run makes one query.
\* arg is <<the id, the port queried>>.
KeeperConfig ==
    /\ config = NotQueried
    /\ calls < MaxCalls
    /\ calls' = calls + 1
    /\ op' = "keeper_config" /\ log' = <<>>
    /\ \E id \in QueryIds :
          \/ /\ Overflows(BasePorts.keeper, id)
             /\ arg' = <<id, 0>>
             /\ ret' = "panic" /\ failed' = "overflow"
             /\ UNCHANGED <<output, config, faults>>
          \/ /\ arg' = <<id, keeper_port(id)>>
             /\ \/ \E out \in Outputs :
                      /\ output' = out
                      /\ config' = KeeperClient_config(out)
                      /\ faults' = faults
                \/ /\ faults < MaxFaults
                   /\ output' = <<>>
                   /\ config' = ErrResult("Io")
                   /\ faults' = faults + 1
             /\ ret' = (IF config'.ok THEN "ok" ELSE "err")
             /\ failed' = config'.err
    /\ KeeperConfigFrame

NextKeeper == KeeperConfig

SpecKeeper == (Init \/ InitCluster) /\ [][NextKeeper]_vars

(***************************************************************************)
(* Generating again over a deployment                                      *)
(***************************************************************************)
NextRegenerate ==
    \/ GenerateConfig
    \/ AddKeeper
    \/ AddServer

\* generate_config is run again on the directory of a generated cluster
\* that has grown since.
SpecRegenerate == (Init \/ InitCluster) /\ [][NextRegenerate]_vars

(***************************************************************************)
(* Placement in a cluster that has issued many ids                         *)
(***************************************************************************)
\* The keeper id whose client port is the raft port of keeper 1: one
\* base-port step above it.
FarId == BasePorts.raft - BasePorts.keeper + 1

\* The state after generate_config(FarId, 1) and the successful removal of
\* every keeper between MaxId and FarId, seen by a new Deployment before
\* (running = FALSE) or after deploy: the keepers 1..MaxId and FarId are
\* live, and each config lists them.
InitLarge ==
    \E running \in BOOLEAN :
        LET kids == Ids \cup {FarId}
        IN /\ meta = [ClickwardMetadata_new(UpTo(FarId), UpTo(1))
                         EXCEPT !.keeper_ids = kids]
           /\ disk = ToJson(meta)
           /\ rootExists = TRUE
           /\ keeperCfg = [i \in Ids |-> KeeperConfigFile(i, kids)]
           /\ serverCfg = [i \in Ids |-> IF i = 1
                               THEN ReplicaConfigFile(i, kids, {1})
                               ELSE NoServerCfg]
           /\ keeperPid = (IF running THEN kids ELSE {})
           /\ serverPid = (IF running THEN {1} ELSE {})
           /\ spawnedK = {} /\ spawnedS = {}
           /\ op = (IF running THEN "server_pidfile" ELSE "new")
           /\ arg = (IF running THEN <<1, 0>> ELSE <<0, 0>>)
           /\ ret = "ok" /\ failed = "none"
           /\ log = <<>>
           /\ issuedK = UpTo(FarId) /\ issuedS = {1}
           /\ faults = 0
           /\ calls = 0
           /\ output = <<>> /\ config = NotQueried /\ peer = NoMeta

NextPorts ==
    \/ AddServer
    \/ RemoveKeeper
    \/ RemoveServer

\* Membership changes on such a cluster, or on a path that holds no
\* deployment.
SpecPorts == (Init \/ InitLarge) /\ [][NextPorts]_vars

(***************************************************************************)
(* Teardown after removals                                                 *)
(***************************************************************************)
NextOrphan ==
    \/ RemoveKeeper
    \/ RemoveServer
    \/ Teardown

\* Nodes are removed from a generated cluster, running or not, and the
\* cluster is torn down.
SpecOrphan == (Init \/ InitCluster) /\ [][NextOrphan]_vars

(***************************************************************************)
(* The standalone binary (src/main.rs)                                     *)
(***************************************************************************)
\* ClickwardMetadata::new of src/main.rs; its record has no server fields.
standalone_new(keeper_ids) ==
    [present |-> TRUE, keeper_ids |-> keeper_ids, max_keeper_id |-> 3,
     server_ids |-> {}, max_server_id |-> 0]

\* start_keeper of src/main.rs: spawn(...).expect("Failed to start keeper")
standalone_start_keeper(id) ==
    <<Step("spawn_keeper_expect", id, {}, {}, NoMeta)>>

\* generate_config of src/main.rs
standalone_generate_config(num_keepers, num_replicas) ==
    LET kids == UpTo(num_keepers)
        rids == UpTo(num_replicas)
    IN <<Step("create_dir_all", 0, {}, {}, NoMeta)>>
       \o generate_clickhouse_config(kids, rids)
       \o ForKeepers(kids, kids)
       \o save(standalone_new(kids))

\* add_keeper of src/main.rs after meta.add_keeper() returned new_id
standalone_add_keeper(m, new_id) ==
    save(m)
    \o generate_keeper_config(new_id, m.keeper_ids)
    \o standalone_start_keeper(new_id)
    \o ForKeepers(m.keeper_ids \ {new_id}, m.keeper_ids)

\* Commands::GenConfig of src/main.rs.  The binary keeps nothing in memory
\* between commands.
StandaloneGenConfig ==
    \E n \in 1..MaxStandaloneKeepers, r \in 0..1 :
        LET plan == standalone_generate_config(n, r)
        IN \E f \in FailPoints(plan) :
            /\ Run("generate_config", <<n, r>>, plan, f)
            /\ issuedK' = Issued(issuedK, UpTo(n), Done(plan, f))
            /\ UNCHANGED <<meta, issuedS>>

\* Commands::AddKeeper of src/main.rs: load, add, save, configs and start.
StandaloneAddKeeper ==
    \/ /\ Load(disk).present
       /\ Load(disk).max_keeper_id <= MaxStandaloneKeepers
       /\ LET m == Meta_add_keeper(Load(disk))
              new_id == m.max_keeper_id
              plan == standalone_add_keeper(m, new_id)
          IN \E f \in FailPoints(plan) :
              /\ Run("add_keeper", <<new_id, 0>>, plan, f)
              /\ issuedK' = Issued(issuedK, m.keeper_ids, Done(plan, f))
              /\ UNCHANGED <<meta, issuedS>>
    \/ /\ ~Load(disk).present
       /\ Bail("add_keeper", <<0, 0>>, "load")
       /\ UNCHANGED <<meta, issuedK, issuedS>>

NextStandalone ==
    \/ StandaloneGenConfig
    \/ StandaloneAddKeeper

SpecStandalone == Init /\ [][NextStandalone]_vars

(***************************************************************************)
(* The command line (src/bin/main.rs)                                      *)
(***************************************************************************)
\* main: `if let Err(e) = handle().await { println!("Error: {e}") }` and
\* then main returns, so the process ends with status 0 whether or not
\* handle returned an error; a panic ends it with status 101.
main(r) ==
    [printed |-> (r = "err"),
     status |-> IF r = "panic" THEN 101 ELSE 0]

\* The calls that are commands of the command line.
Commands == {"generate_config", "deploy", "teardown", "add_keeper",
             "remove_keeper", "add_server", "remove_server", "keeper_config"}

(***************************************************************************)
(* Properties                                                              *)
(***************************************************************************)
\* Positions of the steps (o, i) in the log of the last call.
At(o, i) == {k \in 1..Len(log) : log[k].op = o /\ log[k].id = i}

\* Positions of the steps of kind o in the log of the last call.
AtOp(o) == {k \in 1..Len(log) : log[k].op = o}

\* Every step (o2, i2) of the log comes after a step (o1, i1).
Precedes(o1, i1, o2, i2) ==
    \A j \in At(o2, i2) : \E k \in At(o1, i1) : k < j

StopKeeperOps == {"read_pid_keeper", "kill_keeper", "rm_pid_keeper"}

StopServerOps == {"read_pid_server", "pgrep", "kill_server", "kill_child",
                  "rm_pid_server"}

MemberOps == {"add_keeper", "remove_keeper", "add_server", "remove_server"}

C2_IdsBelowWatermark ==
    /\ \A i \in meta.keeper_ids : i <= meta.max_keeper_id
    /\ \A i \in meta.server_ids : i <= meta.max_server_id
    /\ \A i \in Load(disk).keeper_ids : i <= disk.max_keeper_id
    /\ \A i \in Load(disk).server_ids : i <= disk.max_server_id

\* Adds and a remove have happened: a live id equals the watermark, an id
\* below it is gone.
C2_Witness ==
    /\ op \in MemberOps /\ ret = "ok"
    /\ meta.max_keeper_id \in meta.keeper_ids
    /\ \E i \in 1..meta.max_keeper_id : i \notin meta.keeper_ids
    /\ disk = ToJson(meta)

\* C3: remove_keeper(id) with id not in keeper_ids, and remove_server(id)
\* with id not in server_ids, return an error and change nothing: not the
\* Topology in memory, not the record on disk, no config file, no pidfile,
\* and no step (save, config write, stop) is performed.
C3_RemoveUnknown ==
    [][ /\ (op' = "remove_keeper" /\ arg'[1] \notin meta.keeper_ids) =>
              /\ ret' = "err" /\ log' = <<>>
              /\ UNCHANGED <<meta, disk, keeperCfg, serverCfg, keeperPid,
                             serverPid, spawnedK, spawnedS>>
        /\ (op' = "remove_server" /\ arg'[1] \notin meta.server_ids) =>
              /\ ret' = "err" /\ log' = <<>>
              /\ UNCHANGED <<meta, disk, keeperCfg, serverCfg, keeperPid,
                             serverPid, spawnedK, spawnedS>>
      ]_vars

\* A remove of an id that is not live was refused, on a Topology that has
\* live ids of that kind.
C3_Witness ==
    /\ op = "remove_keeper" /\ ret = "err" /\ failed = "no_such_keeper"
    /\ meta.keeper_ids # {}
    /\ arg[1] \notin meta.keeper_ids

\* C4: in every execution of add_keeper the steps are performed in this
\* order: (a) the Topology containing the new id is saved, (b) the new
\* keeper's config is written, (c) the new keeper is spawned, (d) the configs
\* of the other live keepers are written, (e) the clickhouse configs are
\* written; each step starts after the previous one returned, and a
\* successful call performs all of them.
C4_AddKeeperOrder ==
    (op = "add_keeper" /\ arg[1] # 0) =>
        LET new == arg[1]
            others == meta.keeper_ids \ {new}
        IN /\ log # <<>> =>
                /\ log[1].op = "save"
                /\ new \in log[1].meta.keeper_ids
           /\ \A j \in 2..Len(log) : log[j].op # "save"
           /\ Precedes("gen_keeper", new, "spawn_keeper", new)
           /\ \A o \in others : Precedes("spawn_keeper", new, "gen_keeper", o)
           /\ \A j \in AtOp("gen_server") :
                 \A o \in others : \E k \in At("gen_keeper", o) : k < j
           /\ \A j \in AtOp("gen_server") : \E k \in At("spawn_keeper", new) : k < j
           /\ \A j \in 1..Len(log) :
                 log[j].op \in {"save", "gen_keeper", "spawn_keeper", "gen_server"}
           /\ ret = "ok" =>
                /\ At("gen_keeper", new) # {} /\ At("spawn_keeper", new) # {}
                /\ \A o \in others : At("gen_keeper", o) # {}
                /\ \A r \in meta.server_ids : At("gen_server", r) # {}

\* add_keeper succeeded on a cluster with another keeper and a server.
C4_Witness ==
    /\ op = "add_keeper" /\ ret = "ok"
    /\ meta.keeper_ids \ {arg[1]} # {}
    /\ meta.server_ids # {}
    /\ Len(log) >= 5

\* C5: in every execution of remove_keeper(id) with id live, id is removed
\* from keeper_ids, the Topology is saved, the config of every remaining
\* keeper is written from the reduced membership, and only then is the stop
\* of the removed keeper requested.
C5_RemoveKeeperOrder ==
    (op = "remove_keeper" /\ failed \notin {"no_such_keeper", "missing_meta"}) =>
        LET id == arg[1]
        IN /\ id \notin meta.keeper_ids
           /\ log # <<>> =>
                /\ log[1].op = "save"
                /\ log[1].meta = meta
           /\ \A j \in 1..Len(log) :
                 log[j].op = "gen_keeper" => log[j].ks = meta.keeper_ids
           /\ \A j \in 1..Len(log) :
                 log[j].op \in StopKeeperOps =>
                     /\ log[j].id = id
                     /\ \E k \in AtOp("save") : k < j
                     /\ \A o \in meta.keeper_ids :
                           \E k \in At("gen_keeper", o) : k < j

\* remove_keeper sent the kill of the removed keeper while other keepers
\* remain.
C5_Witness ==
    /\ op = "remove_keeper"
    /\ At("kill_keeper", arg[1]) # {}
    /\ meta.keeper_ids # {}

\* C6: in every execution of add_server the new id is allocated and the
\* Topology saved first, then the clickhouse config of every live server,
\* the new one included, is written from the post-add membership, and only
\* then is the new server spawned.
C6_AddServerOrder ==
    (op = "add_server" /\ arg[1] # 0) =>
        LET new == arg[1]
        IN /\ new \in meta.server_ids
           /\ log # <<>> =>
                /\ log[1].op = "save"
                /\ log[1].meta = meta
           /\ \A j \in 1..Len(log) :
                 log[j].op = "gen_server" =>
                     /\ log[j].ss = meta.server_ids
                     /\ log[j].ks = meta.keeper_ids
           /\ \A j \in AtOp("spawn_server") :
                 /\ log[j].id = new
                 /\ \A r \in meta.server_ids :
                       \E k \in At("gen_server", r) : k < j
           /\ ret = "ok" => At("spawn_server", new) # {}

\* add_server succeeded on a cluster that already had a server.
C6_Witness ==
    /\ op = "add_server" /\ ret = "ok"
    /\ meta.server_ids \ {arg[1]} # {}

\* C7: in every execution of remove_server(id) with id live, id is removed
\* and the Topology saved, then the configs of the remaining servers are
\* written without id, and only then is the stop of the removed server
\* requested.
C7_RemoveServerOrder ==
    (op = "remove_server" /\ failed \notin {"no_such_replica", "missing_meta"}) =>
        LET id == arg[1]
        IN /\ id \notin meta.server_ids
           /\ log # <<>> =>
                /\ log[1].op = "save"
                /\ log[1].meta = meta
           /\ \A j \in 1..Len(log) :
                 log[j].op = "gen_server" =>
                     /\ log[j].ss = meta.server_ids
                     /\ id \notin log[j].ss
           /\ \A j \in 1..Len(log) :
                 log[j].op \in StopServerOps =>
                     /\ log[j].id = id
                     /\ \E k \in AtOp("save") : k < j
                     /\ \A r \in meta.server_ids :
                           \E k \in At("gen_server", r) : k < j

\* remove_server sent the kill of the removed server while other servers
\* remain.
C7_Witness ==
    /\ op = "remove_server"
    /\ At("kill_server", arg[1]) # {}
    /\ meta.server_ids # {}

\* C8: in each of the four membership operations no config file is written
\* and no process start or stop is requested before the mutated Topology has
\* been saved; if the save fails the operation returns the error and none of
\* those steps is performed.
C8_SaveFirst ==
    op \in MemberOps =>
        /\ log # <<>> =>
              /\ log[1].op = "save"
              /\ log[1].meta = meta
              /\ Load(disk) = meta
        /\ failed = "save" => (ret = "err" /\ log = <<>>)

\* The save of a membership operation failed.
C8_Witness ==
    /\ op \in MemberOps
    /\ failed = "save"

\* C9: a successful generate_config(n, m), n >= 1 and m >= 1, yields
\* keeper_ids = 1..n, server_ids = 1..m, max_keeper_id = n,
\* max_server_id = m, exactly n + m config files written, all of them before
\* the Topology is saved, and no process start request.
C9_GenerateCluster ==
    (op = "generate_config" /\ ret = "ok") =>
        LET n == arg[1]
            m == arg[2]
        IN /\ n >= 1 /\ m >= 1
           /\ meta.present
           /\ meta.keeper_ids = 1..n /\ meta.max_keeper_id = n
           /\ meta.server_ids = 1..m /\ meta.max_server_id = m
           /\ Load(disk) = meta
           /\ Cardinality(AtOp("gen_keeper") \cup AtOp("gen_server")) = n + m
           /\ \A i \in 1..n : Cardinality(At("gen_keeper", i)) = 1
           /\ \A i \in 1..m : Cardinality(At("gen_server", i)) = 1
           /\ \A j \in AtOp("gen_keeper") \cup AtOp("gen_server") :
                 \A k \in AtOp("save") : j < k
           /\ Cardinality(AtOp("save")) = 1
           /\ AtOp("spawn_keeper") = {} /\ AtOp("spawn_server") = {}

\* generate_config(2, 1) succeeded.
C9_Witness ==
    /\ op = "generate_config" /\ ret = "ok"
    /\ arg = <<2, 1>>

\* C10: in every execution of deploy, the start request of every keeper
\* found in the deployment directory is submitted before the start request
\* of any clickhouse server.
C10_KeepersFirst ==
    op = "deploy" =>
        \A j \in AtOp("spawn_server") :
            /\ \A k \in AtOp("spawn_keeper") : k < j
            /\ \A i \in Ids : keeperCfg[i].exists => At("spawn_keeper", i) # {}

\* deploy started at least one keeper and one server.
C10_Witness ==
    /\ op = "deploy" /\ ret = "ok"
    /\ AtOp("spawn_keeper") # {}
    /\ AtOp("spawn_server") # {}

\* C11: teardown enters the stop of every keeper and every server of the
\* metadata it loaded, whatever the earlier stops returned, and returns
\* success; every node whose stop ran to its end has lost its pidfile.
C11_TeardownAll ==
    op = "teardown" =>
        /\ ret = "ok"
        /\ \A i \in meta.keeper_ids : Cardinality(At("stop_keeper", i)) = 1
        /\ \A i \in meta.server_ids : Cardinality(At("stop_server", i)) = 1
        /\ \A j \in AtOp("stop_server") : \A k \in AtOp("stop_keeper") : k < j
        /\ \A i \in meta.keeper_ids :
              At("rm_pid_keeper", i) # {} => i \notin keeperPid
        /\ \A i \in meta.server_ids :
              At("rm_pid_server", i) # {} => i \notin serverPid

\* teardown went on to kill a server after the stop of a keeper had failed
\* before its kill.
C11_Witness ==
    /\ op = "teardown"
    /\ \E i \in meta.keeper_ids :
          At("stop_keeper", i) # {} /\ At("kill_keeper", i) = {}
    /\ \E i \in meta.server_ids : At("kill_server", i) # {}

\* C12: stop_keeper(id) and stop_server(id) called when the node has no
\* pidfile return an error (not a panic) at the read of the pidfile, before
\* any kill is submitted, and leave the metadata, the record on disk and all
\* pidfiles as they were; so a stop repeated right after a successful stop
\* of the same node fails.
C12_StopNotRunning ==
    [][ /\ (op' = "stop_keeper" /\ arg'[1] \notin keeperPid) =>
              /\ ret' = "err" /\ failed' = "read_pid_keeper" /\ log' = <<>>
              /\ UNCHANGED <<meta, disk, keeperPid, serverPid>>
        /\ (op' = "stop_server" /\ arg'[1] \notin serverPid) =>
              /\ ret' = "err" /\ failed' = "read_pid_server" /\ log' = <<>>
              /\ UNCHANGED <<meta, disk, keeperPid, serverPid>>
        /\ (op \in {"stop_keeper", "stop_server"} /\ ret = "ok"
              /\ op' = op /\ arg' = arg) =>
              (ret' = "err" /\ log' = <<>>)
      ]_vars

\* On a cluster that was running, the stop of a server of the metadata
\* failed for want of its pidfile right after a call that removed it.
C12_Witness ==
    /\ op = "stop_server" /\ ret = "err" /\ failed = "read_pid_server"
    /\ arg[1] \in meta.server_ids
    /\ calls = 2 /\ faults = 0
    /\ keeperPid # {}

\* C13: whenever a stop of a clickhouse server removes the pidfile, the
\* worker was looked up with pgrep -P, then the kill of the recorded pid and
\* the kill of the worker were both submitted, in that order, before the
\* removal; a successful stop_server does all of it and the pidfile is gone.
C13_StopServerOrder ==
    /\ \A j \in AtOp("rm_pid_server") :
          LET id == log[j].id
          IN \E p \in At("pgrep", id), a \in At("kill_server", id),
                b \in At("kill_child", id) :
                 p < a /\ a < b /\ b < j
    /\ (op = "stop_server" /\ ret = "ok") =>
          /\ At("rm_pid_server", arg[1]) # {}
          /\ arg[1] \notin serverPid

\* stop_server succeeded on a server of the metadata.
C13_Witness ==
    /\ op = "stop_server" /\ ret = "ok"
    /\ arg[1] \in meta.server_ids
    /\ Len(log) = 5

\* The lines of the grammar server.<id>=<host>:<port>;<info>, each with the
\* number its id denotes and its host:port.
GrammarLines ==
    {[text |-> <<"server.">> \o i.text \o <<"=">> \o <<"h", ":", "9">> \o <<";", "i">>,
      id |-> i.val, addr |-> <<"h", ":", "9">>] :
        i \in {[text |-> <<"1">>, val |-> 1], [text |-> <<"0", "2">>, val |-> 2]}}

GrammarOf(line) == CHOOSE g \in GrammarLines : g.text = line

InGrammar(line) == \E g \in GrammarLines : g.text = line

\* C14: when every line of the response has the form
\* server.<id>=<host>:<port>;<info> and the ids are distinct, config returns
\* Ok with exactly one entry per line, keyed by the number the id denotes
\* and holding the text between '=' and the first ';'.
C14_ParsesMembership ==
    LET ls == Lines(output)
    IN (/\ op = "keeper_config" /\ failed \notin {"Io", "overflow"}
        /\ \A k \in 1..Len(ls) : InGrammar(ls[k])
        /\ \A j, k \in 1..Len(ls) :
              j # k => GrammarOf(ls[j]).id # GrammarOf(ls[k]).id) =>
           /\ config.ok
           /\ Cardinality(DOMAIN config.map) = Len(ls)
           /\ \A k \in 1..Len(ls) :
                 /\ GrammarOf(ls[k]).id \in DOMAIN config.map
                 /\ config.map[GrammarOf(ls[k]).id] = GrammarOf(ls[k]).addr

\* A response of two well-formed lines with ids 1 and 02 was parsed.
C14_Witness ==
    /\ op = "keeper_config" /\ config.ok
    /\ Len(Lines(output)) = 2
    /\ \A k \in 1..2 : InGrammar(Lines(output)[k])
    /\ DOMAIN config.map = {1, 2}

\* C15: when at least one line of the response is not of the form
\* server.<id>=<host>:<port>;<info>, config returns UnexpectedResponse and
\* no mapping.
C15_RejectsMalformed ==
    (/\ op = "keeper_config" /\ failed \notin {"Io", "overflow"}
     /\ \E k \in 1..Len(Lines(output)) : ~InGrammar(Lines(output)[k])) =>
        /\ ~config.ok
        /\ config.err = "UnexpectedResponse"
        /\ config.map = EmptyMap

\* C16: every reachable Topology, also one whose keeper_ids or server_ids is
\* empty, is read back by load from the record save writes for it with the
\* same keeper_ids, max_keeper_id, server_ids and max_server_id; and a
\* Deployment created after a completed save holds the saved Topology.
C16_RoundTrip ==
    /\ meta.present => Load(ToJson(meta)) = meta
    /\ Load(disk).present => ToJson(Load(disk)) = disk
    /\ (op \in MemberOps /\ log # <<>>) => Load(disk) = meta

\* A Deployment was created from a saved record whose keeper_ids is empty
\* and whose max_keeper_id is not zero.
C16_Witness ==
    /\ op = "new" /\ meta.present
    /\ meta.keeper_ids = {} /\ meta.max_keeper_id > 0
    /\ disk = ToJson(meta)

\* C17: in every state, whatever the live sets and whatever operations came
\* before, each config file on disk sits in the directory named by its
\* node's kind and id, and gives every node it mentions, itself included,
\* the port that is the kind's base port plus the node's id.
C17_Placement ==
    \A i \in Ids :
        /\ keeperCfg[i].exists =>
              /\ keeperCfg[i].dir = [kind |-> "keeper", id |-> i]
              /\ keeperCfg[i].tcp_port = 20000 + i
              /\ DOMAIN keeperCfg[i].raft_config = keeperCfg[i].raft
              /\ \A j \in keeperCfg[i].raft :
                    keeperCfg[i].raft_config[j] = 21000 + j
        /\ serverCfg[i].exists =>
              /\ serverCfg[i].dir = [kind |-> "clickhouse", id |-> i]
              /\ serverCfg[i].tcp_port = 22000 + i
              /\ serverCfg[i].http_port = 23000 + i
              /\ serverCfg[i].interserver_http_port = 24000 + i
              /\ \A j \in serverCfg[i].replicas :
                    serverCfg[i].remote_servers[j] = 22000 + j
              /\ \A j \in serverCfg[i].keepers :
                    serverCfg[i].keeper_nodes[j] = 20000 + j

\* A keeper config was written for a live set that has lost a lower id, and
\* an older config written for another live set is still on disk.
C17_Witness ==
    \E i, j \in Ids :
        /\ keeperCfg[i].exists /\ keeperCfg[j].exists
        /\ keeperCfg[i].raft # keeperCfg[j].raft
        /\ i \in keeperCfg[i].raft /\ i \in keeperCfg[j].raft
        /\ \E k \in 1..(i - 1) : k \notin keeperCfg[i].raft

\* C18: a command that returns an error makes the process print the error
\* and end with a non-zero exit status; the exit status is zero only when
\* the command returned success.
C18_ExitStatus ==
    op \in Commands =>
        /\ ret = "err" => (main(ret).printed /\ main(ret).status # 0)
        /\ main(ret).status = 0 => ret = "ok"

\* C19: add_keeper, remove_keeper, add_server and remove_server called on a
\* Deployment that holds no metadata (the file was missing or did not
\* deserialize when the Deployment was created) return an error, not a
\* panic, perform no step, and leave the metadata, the file, every config
\* file, every pidfile and the set of started processes as they were.
C19_MissingMeta ==
    [][ /\ (op' = "new" /\ (~disk.exists \/ disk.max_keeper_id < 0)) =>
              ~meta'.present
        /\ (op' \in MemberOps /\ ~meta.present) =>
              /\ ret' = "err" /\ failed' = "missing_meta" /\ log' = <<>>
              /\ UNCHANGED <<meta, disk, rootExists, keeperCfg, serverCfg,
                             keeperPid, serverPid, spawnedK, spawnedS>>
      ]_vars

\* A membership operation was refused on a deployed cluster whose metadata
\* file does not deserialize.
C19_Witness ==
    /\ op \in MemberOps /\ ret = "err" /\ failed = "missing_meta"
    /\ disk = Garbage
    /\ keeperCfg[1].exists /\ 1 \in keeperPid

\* C20: when add_keeper fails after its save, it returns an error, the
\* saved Topology contains the new id, and no step after the failing one was
\* performed: after a failed start only the new keeper's config was written
\* and no other config mentions the new id; after a failed keeper config no
\* clickhouse config was written; after a failed clickhouse config not all
\* of them were written.
C20_AddKeeperNoRollback ==
    (op = "add_keeper" /\ failed \notin {"none", "missing_meta", "save"}) =>
        LET new == arg[1]
        IN /\ ret = "err"
           /\ log # <<>> /\ log[1].op = "save"
           /\ new \in Load(disk).keeper_ids
           /\ new \in meta.keeper_ids
           /\ Cardinality(AtOp("spawn_keeper")) <= 1
           /\ failed = "spawn_keeper" =>
                 /\ AtOp("spawn_keeper") = {} /\ AtOp("gen_server") = {}
                 /\ \A j \in AtOp("gen_keeper") : log[j].id = new
                 /\ \A o \in Ids \ {new} : new \notin keeperCfg[o].raft
                 /\ \A i \in Ids : new \notin serverCfg[i].keepers
           /\ failed = "gen_keeper" =>
                 /\ AtOp("gen_server") = {}
                 /\ At("spawn_keeper", new) = {} => AtOp("gen_keeper") = {}
                 /\ Cardinality(AtOp("gen_keeper"))
                       < Cardinality(meta.keeper_ids)
           /\ failed = "gen_server" =>
                 Cardinality(AtOp("gen_server")) < Cardinality(meta.server_ids)

\* The start of the new keeper failed on a cluster that has another keeper
\* and a server.
C20_Witness ==
    /\ op = "add_keeper" /\ ret = "err" /\ failed = "spawn_keeper"
    /\ meta.keeper_ids \ {arg[1]} # {}
    /\ meta.server_ids # {}
    /\ keeperCfg[arg[1]].exists

\* The greatest element of a non-empty set of ids, 0 for the empty set.
Greatest(S) == IF S = {} THEN 0 ELSE CHOOSE x \in S : \A y \in S : y <= x

\* C21: on a generated cluster, over any sequence of adds and removes on a
\* Topology, a remove, also of the node whose id is the watermark, leaves
\* max_keeper_id and max_server_id as they were, and an Add returns the
\* watermark plus one and makes it the watermark, so that the watermark is
\* the greatest id allocated on that Topology; the saved watermark is never
\* below an id that a saved record has held.
C21_Watermark ==
    [][ /\ Load(disk').present =>
              /\ disk'.max_keeper_id >= Greatest(issuedK')
              /\ disk'.max_server_id >= Greatest(issuedS')
        /\ op' \in {"remove_keeper", "remove_server"} =>
              /\ meta'.max_keeper_id = meta.max_keeper_id
              /\ meta'.max_server_id = meta.max_server_id
        /\ (op' = "add_keeper" /\ arg'[1] # 0) =>
              /\ arg'[1] = meta.max_keeper_id + 1
              /\ arg'[1] > Greatest(meta.keeper_ids)
              /\ meta'.max_keeper_id = arg'[1]
              /\ meta'.max_server_id = meta.max_server_id
        /\ (op' = "add_server" /\ arg'[1] # 0) =>
              /\ arg'[1] = meta.max_server_id + 1
              /\ arg'[1] > Greatest(meta.server_ids)
              /\ meta'.max_server_id = arg'[1]
              /\ meta'.max_keeper_id = meta.max_keeper_id
      ]_vars

\* An Add succeeded after the node whose id was the watermark had been
\* removed: no live id is left below the new one.
C21_Witness ==
    /\ op = "add_keeper" /\ ret = "ok"
    /\ meta.keeper_ids = {arg[1]}
    /\ arg[1] > 1
    /\ disk.max_keeper_id = arg[1]

\* C22: after a successful add_keeper the config of the new keeper and of
\* every other live keeper lists exactly the post-add keeper_ids as raft
\* servers, and the config of every live clickhouse server lists exactly the
\* post-add keeper_ids as its keepers.
C22_AddKeeperConfigs ==
    (op = "add_keeper" /\ ret = "ok") =>
        /\ arg[1] \in meta.keeper_ids
        /\ \A k \in meta.keeper_ids :
              /\ keeperCfg[k].exists
              /\ keeperCfg[k].raft = meta.keeper_ids
              /\ DOMAIN keeperCfg[k].raft_config = meta.keeper_ids
        /\ \A r \in meta.server_ids :
              /\ serverCfg[r].exists
              /\ serverCfg[r].keepers = meta.keeper_ids
              /\ DOMAIN serverCfg[r].keeper_nodes = meta.keeper_ids

\* add_keeper succeeded on a cluster with another live keeper and a live
\* server.
C22_Witness ==
    /\ op = "add_keeper" /\ ret = "ok"
    /\ Cardinality(meta.keeper_ids) >= 2
    /\ meta.server_ids # {}
    /\ keeperCfg[arg[1]].raft = meta.keeper_ids

\* C23 as stated: in remove_keeper(id) no step of the stop of the removed
\* keeper is taken before the config of every remaining keeper and the
\* config of every clickhouse server has been written without id.
C23_StopAfterAllConfigs ==
    (op = "remove_keeper" /\ failed \notin {"no_such_keeper", "missing_meta"}) =>
        \A j \in 1..Len(log) :
            log[j].op \in StopKeeperOps =>
                /\ \A o \in meta.keeper_ids :
                      \E k \in At("gen_keeper", o) :
                          k < j /\ arg[1] \notin log[k].ks
                /\ \A r \in meta.server_ids :
                      \E k \in At("gen_server", r) :
                          k < j /\ arg[1] \notin log[k].ks

\* C23 as amended: in remove_keeper(id) no step of the stop of the removed
\* keeper is taken before the config of every remaining keeper has been
\* written without id; the clickhouse configs are written without id only
\* after the stop has removed the pidfile, and not at all when the stop
\* fails.
C23_StopBetweenConfigs ==
    (op = "remove_keeper" /\ failed \notin {"no_such_keeper", "missing_meta"}) =>
        /\ \A j \in 1..Len(log) :
              log[j].op \in StopKeeperOps =>
                  \A o \in meta.keeper_ids :
                      \E k \in At("gen_keeper", o) :
                          k < j /\ arg[1] \notin log[k].ks
        /\ \A j \in AtOp("gen_server") :
              /\ arg[1] \notin log[j].ks
              /\ \E k \in At("rm_pid_keeper", arg[1]) : k < j
        /\ failed \in StopKeeperOps => AtOp("gen_server") = {}
        /\ ret = "ok" => \A r \in meta.server_ids : At("gen_server", r) # {}

\* remove_keeper succeeded on a cluster that keeps a keeper and has a
\* server.
C23_Witness ==
    /\ op = "remove_keeper" /\ ret = "ok"
    /\ meta.keeper_ids # {}
    /\ meta.server_ids # {}
    /\ At("rm_pid_keeper", arg[1]) # {}

\* The id the next add_keeper on metadata m returns.
NextKeeperId(m) == Meta_add_keeper(m).max_keeper_id

C25_StartWritesPidfile ==
    /\ op = "add_keeper" =>
          \A j \in AtOp("spawn_keeper") : log[j].id \in keeperPid
    /\ op = "add_server" =>
          \A j \in AtOp("spawn_server") : log[j].id \in serverPid

\* C26: a stop_keeper or stop_server that returns an error has not removed
\* the pidfile; when the failing step is the pgrep or the submission of a
\* kill, the pidfile it read is still there; and a stop that succeeds
\* removes the pidfile as its last step.
C26_PidfileRemovedLast ==
    /\ (op = "stop_keeper" /\ ret = "err") =>
          /\ AtOp("rm_pid_keeper") = {}
          /\ failed \in {"kill_keeper", "rm_pid_keeper"} => arg[1] \in keeperPid
    /\ (op = "stop_server" /\ ret = "err") =>
          /\ AtOp("rm_pid_server") = {}
          /\ failed \in {"pgrep", "kill_server", "kill_child", "rm_pid_server"} =>
                arg[1] \in serverPid
    /\ (op \in {"stop_keeper", "stop_server"} /\ ret = "ok") =>
          /\ log[Len(log)].op \in {"rm_pid_keeper", "rm_pid_server"}
          /\ \A j \in 1..(Len(log) - 1) :
                log[j].op \notin {"rm_pid_keeper", "rm_pid_server"}

\* The kill of a keeper could not be submitted and its pidfile is still
\* there.
C26_Witness ==
    /\ op = "stop_keeper" /\ ret = "err" /\ failed = "kill_keeper"
    /\ arg[1] \in keeperPid
    /\ At("read_pid_keeper", arg[1]) # {}

\* C27: for every id the port of a node is the integer base + id, so that
\* two different ids of one kind never share a port.  Here for the ensemble
\* client port that keeper-config queries: the command computes a port
\* (it does not panic), the port is 20000 + id, and no other id has it.
C27_PortIsBasePlusId ==
    op = "keeper_config" =>
        /\ ret # "panic"
        /\ arg[2] = BasePorts.keeper + arg[1]
        /\ \A j \in QueryIds \ {arg[1]} : keeper_port(j) # arg[2]

\* C28: a membership query, whether it returns a mapping or an error, leaves
\* the record in memory and on disk, every config file and every pidfile as
\* they were, and starts and stops no node.
C28_FetchIsReadOnly ==
    [][op' = "keeper_config" =>
          /\ UNCHANGED <<meta, disk, rootExists, keeperCfg, serverCfg>>
          /\ UNCHANGED <<keeperPid, serverPid, spawnedK, spawnedS>>
          /\ log' = <<>>]_vars

\* A query on a running cluster returned a mapping that lacks a keeper of
\* the record, and the keeper's pidfile is still there.
C28_Witness ==
    /\ op = "keeper_config" /\ config.ok
    /\ meta.present /\ disk.exists
    /\ \E i \in meta.keeper_ids : i \notin DOMAIN config.map /\ i \in keeperPid

\* C29: nothing locks the saved record.  An add_keeper allocates from the
\* copy its Deployment loaded and saves that copy over whatever is on disk.
\* So when both invocations loaded the same record and the other one has
\* added and saved, this add allocates the id the other one allocated; and
\* when the other one has removed a keeper and saved, this add's save
\* brings the removed keeper back.
C29_LastWriterWins ==
    [][(/\ op' = "add_keeper" /\ calls' = calls + 1
        /\ HasStep(log', "save", 0)
        /\ peer.present) =>
          /\ arg'[1] = meta.max_keeper_id + 1
          /\ disk' = ToJson(Meta_add_keeper(meta))
          /\ (peer = Meta_add_keeper(meta) /\ disk = ToJson(peer)) =>
                /\ arg'[1] = peer.max_keeper_id
                /\ Load(disk').keeper_ids = meta.keeper_ids \cup {arg'[1]}
          /\ \A j \in meta.keeper_ids :
                (peer = Meta_remove_keeper(meta, j) /\ disk = ToJson(peer)) =>
                    j \in Load(disk').keeper_ids]_vars

\* Both invocations loaded the record of a one-keeper cluster before either
\* saved, both add_keeper calls returned Ok, and both hold keeper 2.
C29_Witness ==
    /\ op = "add_keeper" /\ ret = "ok" /\ faults = 0 /\ calls = 3
    /\ meta.present /\ peer = meta
    /\ arg[1] = 2 /\ meta.keeper_ids = {1, 2}
    /\ disk = ToJson(meta)

\* The record in memory is the saved one, and the config of every live
\* keeper and of every live clickhouse server lists exactly its ids.
ConfigsAgree ==
    /\ meta.present /\ meta = Load(disk)
    /\ \A k \in meta.keeper_ids :
          /\ keeperCfg[k].exists
          /\ keeperCfg[k].raft = meta.keeper_ids
          /\ DOMAIN keeperCfg[k].raft_config = meta.keeper_ids
    /\ \A r \in meta.server_ids :
          /\ serverCfg[r].exists
          /\ serverCfg[r].keepers = meta.keeper_ids
          /\ DOMAIN serverCfg[r].keeper_nodes = meta.keeper_ids
          /\ serverCfg[r].replicas = meta.server_ids
          /\ DOMAIN serverCfg[r].remote_servers = meta.server_ids

\* C30: after generate_config and membership operations that all returned
\* Ok the configs agree with the record: they agree after generate_config,
\* and a membership operation that returns Ok where they agree leaves them
\* in agreement.
C30_ConfigsFollowRecord ==
    /\ []((op = "generate_config" /\ ret = "ok") => ConfigsAgree)
    /\ [][(/\ ConfigsAgree
           /\ calls' = calls + 1 /\ op' \in MemberOps /\ ret' = "ok") =>
              ConfigsAgree']_vars

\* A remove_keeper returned Ok after an add_server and left a cluster of one
\* keeper and two servers in agreement.
C30_Witness ==
    /\ op = "remove_keeper" /\ ret = "ok" /\ calls >= 2
    /\ Cardinality(meta.server_ids) = 2 /\ Cardinality(meta.keeper_ids) = 1
    /\ ConfigsAgree

\* C31: deploy requests a start only for nodes of the live sets of the
\* record: a keeper or server that was removed is not started by a later
\* deploy.
C31_DeployStartsLiveOnly ==
    (op = "deploy" /\ Load(disk).present) =>
        \A j \in 1..Len(log) :
            /\ log[j].op = "spawn_keeper" =>
                  log[j].id \in Load(disk).keeper_ids
            /\ log[j].op = "spawn_server" =>
                  log[j].id \in Load(disk).server_ids

\* C32: whatever operations came before and whatever they returned, a
\* teardown enters the stop of every node that has a pidfile: a pidfile
\* that is still there after teardown belongs to a node whose stop teardown
\* attempted.
C32_TeardownReachesStarted ==
    op = "teardown" =>
        /\ \A i \in keeperPid : At("stop_keeper", i) # {}
        /\ \A i \in serverPid : At("stop_server", i) # {}

\* C33: when a membership operation has returned, with Ok or with an error,
\* the record the Deployment holds in memory is the saved one, also when the
\* save itself failed.
C33_MemoryIsSavedRecord ==
    (op \in MemberOps /\ meta.present) => meta = Load(disk)

\* C34: ids are not reissued across a repeated generate_config on one
\* deployment directory: an add never returns an id that a saved record of
\* the directory has held before, whether an earlier add or an earlier
\* generate_config put it there.
C34_NoReissueAcrossGenerate ==
    [][/\ (op' = "add_keeper" /\ calls' = calls + 1 /\ ret' = "ok") =>
             arg'[1] \notin issuedK
       /\ (op' = "add_server" /\ calls' = calls + 1 /\ ret' = "ok") =>
             arg'[1] \notin issuedS]_vars

\* The listening ports that the configs of the live nodes assign, each with
\* the kind and id of the node it is assigned to.
Assigned ==
    LET ks == meta.keeper_ids \cap Ids
        ss == meta.server_ids \cap Ids
    IN {<<"keeper", k, keeperCfg[k].tcp_port>> : k \in ks}
       \cup UNION {{<<"raft", j, keeperCfg[k].raft_config[j]>> :
                       j \in DOMAIN keeperCfg[k].raft_config} : k \in ks}
       \cup UNION {{<<"keeper", j, serverCfg[r].keeper_nodes[j]>> :
                       j \in DOMAIN serverCfg[r].keeper_nodes} : r \in ss}
       \cup {<<"tcp", r, serverCfg[r].tcp_port>> : r \in ss}
       \cup {<<"http", r, serverCfg[r].http_port>> : r \in ss}
       \cup {<<"interserver_http", r, serverCfg[r].interserver_http_port>> :
                r \in ss}

\* C35: in every record reachable by adds and removes, no two listening
\* ports assigned to live nodes coincide, across all port kinds: after a
\* membership operation that returned Ok, two assignments with the same port
\* are the same port of the same node.
C35_PortsDistinct ==
    (op \in MemberOps /\ ret = "ok" /\ meta.present) =>
        \A a, b \in Assigned :
            a[3] = b[3] => (a[1] = b[1] /\ a[2] = b[2])

\* C36: generate_config(n, m) does not crash for any n >= 0 and m >= 0:
\* unless a write fails it returns Ok and has saved a record whose live sets
\* are 1..n and 1..m, the empty set when n = 0 or m = 0.
C36_GenerateAnySize ==
    (op = "generate_config" /\ failed \in {"none", "new_meta"}) =>
        /\ ret = "ok"
        /\ Load(disk).present
        /\ Load(disk).keeper_ids = UpTo(arg[1])
        /\ Load(disk).server_ids = UpTo(arg[2])

\* C37: when the query produced no response line, config returns an error
\* and not a successful empty mapping.
C37_EmptyResponseIsError ==
    (op = "keeper_config" /\ ret # "panic" /\ Lines(output) = <<>>) =>
        ~config.ok

\* C38: in the standalone binary, after generate_config with n >= 1 keepers
\* the saved max_keeper_id is >= every id of keeper_ids, and the add_keeper
\* that follows returns an id that keeper_ids did not hold.
C38_StandaloneWatermark ==
    [][/\ (op' = "generate_config" /\ calls' = calls + 1 /\ ret' = "ok") =>
             \A i \in Load(disk').keeper_ids : i <= Load(disk').max_keeper_id
       /\ (op' = "add_keeper" /\ calls' = calls + 1 /\ ret' = "ok") =>
             arg'[1] \notin Load(disk).keeper_ids]_vars

====
